---- MODULE Spec2Model ----
(***************************************************************************)
(* A model of glabu, a command-line client of the GitLab REST API.  One    *)
(* behaviour is one invocation of one operation: PackageAction's           *)
(* download_files and upload_package_file (endpoints/packages.rs),         *)
(* project_get_by_id, ProjectDelete, ProjectCreate and ProjectForkPrivate  *)
(* (endpoints/projects.rs) and the command dispatch in front of them       *)
(* (cli.rs, main.rs); project create may be invoked again when it has      *)
(* ended.  The GitLab server, the local file system, the subprocesses run  *)
(* and the ghu crate are the environment: the server answers every request *)
(* the operation sends.                                                    *)
(*                                                                         *)
(* Strings the code only copies (package names, versions, body texts) are  *)
(* TLA+ strings.  Strings the code looks into (file names, regex patterns, *)
(* project references) are sequences of one-character strings.  An         *)
(* Option<T> is a sequence of length 0 (None) or 1 (Some).                 *)
(***************************************************************************)
EXTENDS Integers, Sequences, FiniteSets, TLC

VARIABLES
    cmd,            \* the operation invoked
    args,           \* its arguments, as given on the command line
    env_host,       \* Option: the GITLAB_HOST environment variable
    registry,       \* the server's packages of the project, oldest first
    server_project, \* Option: the server's project of the name to create
    runs,           \* how many times the command has been started
    output_dir_kind, \* what the local file system holds at output_dir
    pc,             \* the operation's position
    project,        \* the project reference handed to the operation
    full_name,      \* ProjectDelete.full_name
    filter,         \* the selector make_filter built
    resolved,       \* Option: the package record whose id the file listing used
    package_files,  \* the stamped Vec<PackageFileInfo>
    idx,            \* files of package_files the for loop has consumed
    output_file,    \* the local path of the file being fetched
    outputs,        \* download_files' outputs vector
    requests,       \* every HTTP request sent, in order
    responses,      \* the answer to each of them, in order
    disk,           \* local files written, in order
    stdout,         \* what was printed to standard output, in order
    calls,          \* subprocesses run and ghu functions called, in order
    result,         \* "running", "ok", "err" or "panic"
    err             \* the error returned, when result = "err"

vars == <<cmd, args, env_host, registry, server_project, runs, output_dir_kind, pc, project, full_name, filter,
          resolved, package_files, idx, output_file, outputs, requests,
          responses, disk, stdout, calls, result, err>>

(***************************************************************************)
(* Bounds of the model.                                                    *)
(***************************************************************************)
\* longest regex literal and longest exact file name given as a selector
MaxLen == 2
\* longest project reference
MaxRefLen == 3
\* how many times in a row project create is run with the same arguments
MaxRuns == 2

(***************************************************************************)
(* Status codes the code compares against.                                 *)
(***************************************************************************)
StatusOk == 200
StatusCreated == 201
StatusNotFound == 404

\* a status the code has no case for
OtherStatuses == {500}

None == <<>>
Some(x) == <<x>>

SeqsFromTo(S, lo, hi) == UNION {[1..k -> S] : k \in lo..hi}

(***************************************************************************)
(* Text.                                                                   *)
(***************************************************************************)
FileChars == {"a", "b"}
RefChars == {"a", "1", "/", "%", " "}

RECURSIVE Flatten(_)
Flatten(ss) == IF ss = <<>> THEN <<>> ELSE Head(ss) \o Flatten(Tail(ss))

\* str::contains(char)
contains(s, c) == \E i \in 1..Len(s) : s[i] = c

\* str::replace('/', "%2F")
replace_slash(s) ==
    Flatten([i \in 1..Len(s) |-> IF s[i] = "/" THEN <<"%", "2", "F">> ELSE <<s[i]>>])

\* the characters urlencoding::encode leaves as they are: ASCII letters and
\* digits and - _ . ~ (those of them the model's texts hold)
Unreserved == {"a", "u", "F", "0", "1", "2", "5", "-", "_", ".", "~"}

\* the %XX form of the other characters of RefChars
PercentForm(c) ==
    CASE c = "/" -> <<"%", "2", "F">>
      [] c = "%" -> <<"%", "2", "5">>
      [] c = " " -> <<"%", "2", "0">>
      [] OTHER -> <<c>>

\* urlencoding::encode
encode(s) ==
    Flatten([i \in 1..Len(s) |-> IF s[i] \in Unreserved THEN <<s[i]>> ELSE PercentForm(s[i])])

\* cli.rs encode_project_id
encode_project_id(p) == IF contains(p, "/") THEN replace_slash(p) ELSE p

(***************************************************************************)
(* Regex: the patterns modelled are a literal with optional ^ and $        *)
(* anchors; a pattern that does not compile has valid = FALSE.             *)
(***************************************************************************)
Patterns ==
    { [valid |-> TRUE, lit |-> l, bol |-> b, eol |-> e] :
        l \in SeqsFromTo(FileChars, 1, MaxLen), b \in BOOLEAN, e \in BOOLEAN }

InvalidPattern == [valid |-> FALSE, lit |-> <<>>, bol |-> FALSE, eol |-> FALSE]

\* the literal of p lies in s from position i on, as the anchors allow
MatchesAt(p, s, i) ==
    /\ i + Len(p.lit) - 1 <= Len(s)
    /\ \A k \in 1..Len(p.lit) : s[i + k - 1] = p.lit[k]
    /\ p.bol => i = 1
    /\ p.eol => i + Len(p.lit) - 1 = Len(s)

\* is_match as a match of the whole text would be
is_match_whole(p, s) == Len(p.lit) = Len(s) /\ MatchesAt(p, s, 1)

\* Regex::is_match: a search from every position
is_match(p, s) == \E i \in 1..(Len(s) + 1) : MatchesAt(p, s, i)

(***************************************************************************)
(* The selector (packages.rs, PackageFileFilter).                          *)
(***************************************************************************)
\* make_filter with a filter that accepts nothing in place of its panic
make_filter_no_panic(pattern, filename) ==
    IF pattern # None
    THEN [kind |-> "PatternFilter", pat |-> pattern[1], name |-> <<>>]
    ELSE [kind |-> "FilenameFilter", pat |-> InvalidPattern,
          name |-> IF filename # None THEN filename[1] ELSE <<>>]

\* make_filter: the pattern wins over the file name; neither is a panic
make_filter(pattern, filename) ==
    IF pattern # None
    THEN [kind |-> "PatternFilter", pat |-> pattern[1], name |-> <<>>]
    ELSE IF filename # None
         THEN [kind |-> "FilenameFilter", pat |-> InvalidPattern, name |-> filename[1]]
         ELSE [kind |-> "panic", pat |-> InvalidPattern, name |-> <<>>]

NoFilter == [kind |-> "none", pat |-> InvalidPattern, name |-> <<>>]

\* PatternFilter::filter
PatternFilter_filter(f, file) == is_match(f.pat, file.file_name)

\* FilenameFilter::filter as starts_with would be
FilenameFilter_filter_starts_with(f, file) ==
    /\ Len(f.name) <= Len(file.file_name)
    /\ SubSeq(file.file_name, 1, Len(f.name)) = f.name

\* FilenameFilter::filter
FilenameFilter_filter(f, file) == file.file_name = f.name

\* filter.filter(package_file), dispatched on the boxed filter
filter_filter(f, file) ==
    IF f.kind = "PatternFilter"
    THEN PatternFilter_filter(f, file)
    ELSE FilenameFilter_filter(f, file)

(***************************************************************************)
(* The server: the packages of the project and their files, laid out as    *)
(* the module comment of packages.rs describes, and the answers it gives.  *)
(***************************************************************************)
Demo10 == [id |-> 11, name |-> "demo", version |-> "1.0"]
Demo20 == [id |-> 12, name |-> "demo", version |-> "2.0"]
Other10 == [id |-> 13, name |-> "other", version |-> "1.0"]

Universe == {Demo10, Demo20, Other10}

\* every creation order of every subset of the universe
Registries ==
    { r \in SeqsFromTo(Universe, 0, Cardinality(Universe)) :
        \A i, j \in 1..Len(r) : i # j => r[i] # r[j] }

\* a file as the server lists it: version and name are not in the response
RawFile(id, package_id, file_name) ==
    [id |-> id, package_id |-> package_id, file_name |-> file_name,
     version |-> None, name |-> None]

FilesOf(package_id) ==
    CASE package_id = 11 -> << RawFile(101, 11, <<"a", "b">>), RawFile(102, 11, <<"b", "a">>) >>
      [] package_id = 12 -> << RawFile(103, 12, <<"a", "b">>) >>
      [] package_id = 13 -> << RawFile(104, 13, <<"b">>), RawFile(105, 13, <<"b", "a", "b">>),
                               RawFile(106, 13, <<"a", "b">>) >>
      [] OTHER -> <<>>

RECURSIVE Reverse(_)
Reverse(s) == IF s = <<>> THEN <<>> ELSE Append(Reverse(Tail(s)), Head(s))

\* the value of a query parameter, "" when it is not sent
RECURSIVE QueryGet(_, _)
QueryGet(query, key) ==
    IF query = <<>> THEN ""
    ELSE IF Head(query)[1] = key THEN Head(query)[2] ELSE QueryGet(Tail(query), key)

QueryHas(query, key) == \E i \in 1..Len(query) : query[i][1] = key

\* GET /projects/:id/packages: an empty filter value filters nothing
ListPackages(reg, query) ==
    LET wanted(p) ==
            /\ QueryGet(query, "package_name") \in {"", p.name}
            /\ QueryGet(query, "package_version") \in {"", p.version}
        found == SelectSeq(reg, wanted)
        sorted == IF QueryGet(query, "order_by") = "created_at" /\ QueryGet(query, "sort") = "desc"
                  THEN Reverse(found)
                  ELSE found
    IN  IF QueryGet(query, "per_page") = "1" /\ sorted # <<>>
        THEN <<Head(sorted)>>
        ELSE sorted

\* whether the generic package registry holds that file
HasGenericFile(reg, name, version, file_name) ==
    \E i \in 1..Len(reg) :
        /\ reg[i].name = name
        /\ reg[i].version = version
        /\ \E k \in 1..Len(FilesOf(reg[i].id)) : FilesOf(reg[i].id)[k].file_name = file_name

NetErr == [status |-> 0, kind |-> "neterr", items |-> <<>>, text |-> ""]

\* a refusal: a status that is no success, with a body that is no JSON list;
\* kind "binary" is a body that is not UTF-8
Refusals(kinds) ==
    { [status |-> s, kind |-> k, items |-> <<>>,
       text |-> IF k = "binary" THEN "not-utf8" ELSE "denied"] :
        s \in {StatusNotFound} \cup OtherStatuses, k \in kinds }

JsonList(items) == [status |-> StatusOk, kind |-> "json", items |-> items, text |-> ""]

\* answers to a listing request
ListingAnswers(items) == {NetErr, JsonList(items)} \cup Refusals({"text"})

\* answers to the GET of a generic package file
FileAnswers(reg, name, version, file_name) ==
    {NetErr} \cup Refusals({"text", "binary"}) \cup
    IF HasGenericFile(reg, name, version, file_name)
    THEN {[status |-> StatusOk, kind |-> "bytes", items |-> <<>>, text |-> "content"]}
    ELSE {}

\* answers to the PUT of a generic package file
UploadAnswers ==
    {NetErr} \cup
    { [status |-> s, kind |-> "text", items |-> <<>>, text |-> t] :
        s \in {StatusOk, StatusCreated, StatusNotFound} \cup OtherStatuses,
        t \in {"body"} }

(***************************************************************************)
(* Requests (setup.rs and the helpers of packages.rs).                     *)
(***************************************************************************)
DefaultHost == "https://gitlab.com"

\* setup.rs gitlab_host
gitlab_host == IF env_host = None THEN DefaultHost ELSE env_host[1]

Request(method, host, path, tail, query) ==
    [method |-> method, host |-> host, path |-> path, tail |-> tail, query |-> query,
     body |-> <<>>]

\* .json(&payload): the request with a JSON body
json(request, payload) == [request EXCEPT !.body = <<payload>>]

\* PackageAction::run asking for every package of the name, latest or not
run_request_all_pages(project_id, package_name, latest) ==
    Request("GET", gitlab_host, <<"projects", ToString(project_id), "packages">>, <<>>,
            << <<"package_name", package_name>> >> \o
            IF latest
            THEN << <<"order_by", "created_at">>, <<"sort", "desc">> >>
            ELSE <<>>)

\* PackageAction::run: the URL of the package listing
run_request(project_id, package_name, latest) ==
    Request("GET", gitlab_host, <<"projects", ToString(project_id), "packages">>, <<>>,
            << <<"package_name", package_name>> >> \o
            IF latest
            THEN << <<"order_by", "created_at">>, <<"sort", "desc">>, <<"per_page", "1">> >>
            ELSE <<>>)

\* packages_get_helper: the host is written out in the URL
packages_get_helper_request(project_id, path, query) ==
    Request("GET", "https://gitlab.com", <<"projects", ToString(project_id), "packages">> \o path,
            <<>>, query)

\* ListPackageFiles::run: the query of its package listing
ListPackageFiles_query(lpf) ==
    << <<"package_name", lpf.package_name>>, <<"package_version", lpf.package_version>> >>

\* package_files_get: the request for the files of one package
package_files_get_request(project_id, package_id, order_by, sort) ==
    packages_get_helper_request(project_id, <<ToString(package_id), "package_files">>,
        (IF order_by # "" THEN << <<"order_by", order_by>> >> ELSE <<>>) \o
        (IF sort # "" THEN << <<"sort", sort>> >> ELSE <<>>))

\* download_files: the path of one package file
package_file_request(project_id, package_file) ==
    Request("GET", gitlab_host,
            <<"projects", ToString(project_id), "packages", "generic",
              package_file.name[1], package_file.version[1]>>,
            package_file.file_name, <<>>)

\* upload_package_file: the path of the PUT
upload_request(project_id, package_name, package_version, file_name) ==
    Request("PUT", gitlab_host,
            <<"projects", ToString(project_id), "packages", "generic",
              package_name, package_version>>,
            file_name, <<>>)

(***************************************************************************)
(* Results: what a fallible step returns, and how an operation ends.       *)
(***************************************************************************)
NoErr == [kind |-> "", detail |-> ""]

\* Ok(items)
Ok(items) == [tag |-> "Ok", kind |-> "", detail |-> "", items |-> items]

\* Err(..): kind is the fixed part of the message, detail the rest
Err(kind, detail) == [tag |-> "Err", kind |-> kind, detail |-> detail, items |-> <<>>]

\* unwrap on None or Err, panic!
Panicked == [tag |-> "Panic", kind |-> "", detail |-> "", items |-> <<>>]

\* the `?` operator on a result that is no Ok: the operation ends with it
Return(o) ==
    /\ result' = IF o.tag = "Err" THEN "err" ELSE IF o.tag = "Panic" THEN "panic" ELSE "ok"
    /\ err' = [kind |-> o.kind, detail |-> o.detail]
    /\ pc' = "done"

Continue(next) ==
    /\ pc' = next
    /\ UNCHANGED <<result, err>>

Send(request) == requests' = Append(requests, request)

Receive(r) == responses' = Append(responses, r)

Last(s) == s[Len(s)]

inputs == <<cmd, args, env_host, registry, output_dir_kind>>
server_vars == <<server_project, runs>>
project_vars == <<project, full_name>>
download_vars == <<filter, resolved, package_files, idx, output_file, outputs>>
local_vars == <<disk, stdout, calls>>

(***************************************************************************)
(* PackageAction::download_files (packages.rs) and what it calls.          *)
(***************************************************************************)
\* line 376: pattern.map(|x| Regex::new(&x).unwrap()), then make_filter
download_files_filter(pattern, filename) ==
    IF pattern # None /\ ~pattern[1].valid
    THEN [kind |-> "panic", pat |-> InvalidPattern, name |-> <<>>]
    ELSE make_filter(pattern, filename)

\* a version given taken before the latest flag is looked at
download_files_mode_version_first(version, latest) ==
    IF version # None THEN "version"
    ELSE IF latest = Some(TRUE) THEN "latest"
    ELSE "neither"

\* lines 378-385: "latest", "version" or neither
download_files_mode(version, latest) ==
    IF latest = Some(TRUE) THEN "latest"
    ELSE IF version # None THEN "version"
    ELSE "neither"

\* package_files_by_version, lines 315-317: the ListPackageFiles it builds
package_files_by_version_lpf(action, version) ==
    [project_id |-> action.project_id, package_name |-> "", package_version |-> version]

\* lines 376-385, to the first request of latest_package_files (run) or of
\* package_files_by_version (ListPackageFiles::run, packages_get)
download_files_begin ==
    /\ cmd = "download_files" /\ pc = "start"
    /\ LET f == download_files_filter(args.pattern, args.filename)
           mode == download_files_mode(args.version, args.latest)
       IN  \/ /\ f.kind = "panic"
              /\ Return(Panicked)
              /\ UNCHANGED <<filter, requests>>
           \/ /\ f.kind # "panic"
              /\ filter' = f
              /\ \/ /\ mode = "latest"
                    /\ Send(run_request(args.project_id, args.package_name, TRUE))
                    /\ Continue("latest:run")
                 \/ /\ mode = "version"
                    /\ LET lpf == package_files_by_version_lpf(args, args.version[1])
                       IN  Send(packages_get_helper_request(lpf.project_id, <<>>,
                                                            ListPackageFiles_query(lpf)))
                    /\ Continue("by_version:packages_get")
                 \/ /\ mode = "neither"
                    /\ Return(Err("Please provide either package version or latest flag", ""))
                    /\ UNCHANGED requests
    /\ UNCHANGED <<inputs, server_vars, project_vars, resolved, package_files, idx, output_file,
                   outputs, responses, local_vars>>

\* PackageAction::run, lines 287-298
run(r) ==
    IF r.kind = "neterr" THEN Err("transport", "")
    ELSE IF r.status = StatusNotFound THEN Err("PackageNotFound", "")
    ELSE IF r.kind # "json" THEN Err("serde_json", "")
    ELSE Ok(r.items)

\* latest_package_files, lines 341-342: latest_package.first().unwrap()
latest_package_first(packages) ==
    IF packages = <<>> THEN Panicked ELSE Ok(<<Head(packages)>>)

\* latest_package_files, lines 339-344
latest_package(r) == IF run(r).tag = "Ok" THEN latest_package_first(run(r).items) ELSE run(r)

\* packages_get_helper and packages_get, lines 587-614
packages_get(r) ==
    IF r.kind = "neterr" THEN Err("transport", "")
    ELSE IF r.kind # "json" THEN Err("serde_json", "")
    ELSE Ok(r.items)

\* ListPackageFiles::run with first().unwrap() in place of ok_or
ListPackageFiles_first_unwrap(packages) ==
    IF packages = <<>> THEN Panicked ELSE Ok(<<Head(packages)>>)

\* ListPackageFiles::run, lines 561-563: packages.first().ok_or("PackageNotFound")
ListPackageFiles_first(packages) ==
    IF packages = <<>> THEN Err("PackageNotFound", "") ELSE Ok(<<Head(packages)>>)

\* ListPackageFiles::run, lines 553-563
ListPackageFiles_package(r) ==
    IF packages_get(r).tag = "Ok" THEN ListPackageFiles_first(packages_get(r).items)
    ELSE packages_get(r)

\* the package listing is answered: the package is picked and its files asked for
package_picked(o, next) ==
    \/ /\ o.tag # "Ok"
       /\ Return(o)
       /\ UNCHANGED <<resolved, requests>>
    \/ /\ o.tag = "Ok"
       /\ resolved' = Some(o.items[1])
       /\ Send(package_files_get_request(args.project_id, o.items[1].id, "", ""))
       /\ Continue(next)

\* run(true), lines 287-299, then latest_package_files, lines 341-344
latest_package_files_run ==
    /\ pc = "latest:run"
    /\ \E r \in ListingAnswers(ListPackages(registry, Last(requests).query)) :
        /\ Receive(r)
        /\ package_picked(latest_package(r), "latest:package_files_get")
    /\ UNCHANGED <<inputs, server_vars, project_vars, filter, package_files, idx, output_file,
                   outputs, local_vars>>

\* packages_get, lines 607-614, then ListPackageFiles::run, lines 561-564
ListPackageFiles_run ==
    /\ pc = "by_version:packages_get"
    /\ \E r \in ListingAnswers(ListPackages(registry, Last(requests).query)) :
        /\ Receive(r)
        /\ package_picked(ListPackageFiles_package(r), "by_version:package_files_get")
    /\ UNCHANGED <<inputs, server_vars, project_vars, filter, package_files, idx, output_file,
                   outputs, local_vars>>

\* the closure of latest_package_files, lines 347-351
latest_stamp(file, version, package_name) ==
    [file EXCEPT !.version = Some(version), !.name = Some(package_name)]

\* the closure of package_files_by_version, lines 321-325
by_version_stamp(file, version, package_name) ==
    [file EXCEPT !.version = Some(version), !.name = Some(package_name)]

\* packages_get_helper and package_files_get, lines 632-640
package_files_get(r) ==
    IF r.kind = "neterr" THEN Err("transport", "")
    ELSE IF r.kind # "json" THEN Err("serde_json", "")
    ELSE Ok(r.items)

\* the file listing is answered: the files are stamped, by the closure of the
\* caller, and the loop entered
files_listed(caller) ==
    \E r \in ListingAnswers(FilesOf(resolved[1].id)) :
        /\ Receive(r)
        /\ LET o == package_files_get(r)
           IN  \/ /\ o.tag # "Ok"
                  /\ Return(o)
                  /\ UNCHANGED <<package_files, idx>>
               \/ /\ o.tag = "Ok"
                  /\ package_files' =
                        [i \in 1..Len(o.items) |->
                            IF caller = "latest_package_files"
                            THEN latest_stamp(o.items[i], resolved[1].version,
                                              args.package_name)
                            ELSE by_version_stamp(o.items[i], args.version[1],
                                                  args.package_name)]
                  /\ idx' = 0
                  /\ Continue("for")

\* latest_package_files, lines 344-353
latest_package_files_files ==
    /\ pc = "latest:package_files_get"
    /\ files_listed("latest_package_files")
    /\ UNCHANGED <<inputs, server_vars, project_vars, filter, resolved, output_file, outputs,
                   requests, local_vars>>

\* package_files_by_version, lines 315-327
package_files_by_version_files ==
    /\ pc = "by_version:package_files_get"
    /\ files_listed("package_files_by_version")
    /\ UNCHANGED <<inputs, server_vars, project_vars, filter, resolved, output_file, outputs,
                   requests, local_vars>>

\* lines 387-390: the iterator yields a file the filter refuses
for_continue ==
    /\ pc = "for" /\ idx < Len(package_files)
    /\ ~filter_filter(filter, package_files[idx + 1])
    /\ idx' = idx + 1
    /\ UNCHANGED <<inputs, server_vars, project_vars, filter, resolved, package_files, output_file,
                   outputs, requests, responses, local_vars, pc, result, err>>

\* what output_dir may be: a directory, a directory no file can be created
\* in, a directory whose name is not UTF-8, or no directory at all
DirKinds == {"dir", "readonly", "not_utf8", "absent"}

\* Path::is_dir
is_dir(kind) == kind # "absent"

\* line 405: output_file.as_path().to_str(), None for a path that is not UTF-8
to_str_is_some(kind) == kind # "not_utf8"

\* File::create(output_file), line 484, by the directory the path lies in;
\* the fallback /tmp takes files
File_create_ok(kind) == kind # "readonly"

\* lines 399-404: the local path, by what output_dir.is_dir() answers
output_path(output_dir, output_dir_is_dir, file_name) ==
    [dir |-> IF output_dir_is_dir THEN output_dir ELSE "/tmp", file |-> file_name]

\* the download handed to a task of its own, the loop going on at once
download_file_spawn == "for"

\* line 406, download_file(..).await: the loop stands still until the file
\* is answered and written
download_file_await == "download_file"

\* lines 387-406: the iterator yields a file the filter accepts, to the
\* request of download_file
for_download_file ==
    /\ pc = "for" /\ idx < Len(package_files)
    /\ filter_filter(filter, package_files[idx + 1])
    /\ output_file' = output_path(args.output_dir, is_dir(output_dir_kind),
                                  package_files[idx + 1].file_name)
    /\ \/ /\ to_str_is_some(output_dir_kind)
          /\ idx' = idx + 1
          /\ Send(package_file_request(args.project_id, package_files[idx + 1]))
          /\ Continue(download_file_await)
       \/ /\ ~to_str_is_some(output_dir_kind)
          /\ Return(Panicked)
          /\ UNCHANGED <<idx, requests>>
    /\ UNCHANGED <<inputs, server_vars, project_vars, filter, resolved, package_files, outputs,
                   responses, local_vars>>

\* download_file without its status check
download_file_response_unchecked(r) ==
    IF r.kind = "neterr" THEN Err("transport", "") ELSE Ok(<<r.text>>)

\* download_file taking every answer but a server error for the file
download_file_response_not_server_error(r) ==
    IF r.kind = "neterr" THEN Err("transport", "")
    ELSE IF r.status >= 500
         THEN Err("DownloadFileErr", IF r.kind = "binary" THEN ToString(r.status) ELSE r.text)
         ELSE Ok(<<r.text>>)

\* download_file, lines 470-483: the response, before the file is written
download_file_response(r) ==
    IF r.kind = "neterr" THEN Err("transport", "")
    ELSE IF r.status # StatusOk
         THEN Err("DownloadFileErr", IF r.kind = "binary" THEN ToString(r.status) ELSE r.text)
         ELSE Ok(<<r.text>>)

\* download_files removing what it wrote when a later file fails
download_files_on_error_remove(written) == <<>>

\* line 406, download_file(..).await?: on an error download_files returns
\* at once, and the files written before stay as they are
download_files_on_error(written) == written

\* download_file, lines 475-486, then line 407
download_file ==
    /\ pc = "download_file"
    /\ \E r \in FileAnswers(registry, Last(requests).path[5], Last(requests).path[6],
                            Last(requests).tail) :
        /\ Receive(r)
        /\ LET o == download_file_response(r)
           IN  \/ /\ o.tag # "Ok"
                  /\ Return(o)
                  /\ disk' = download_files_on_error(disk)
                  /\ UNCHANGED outputs
               \/ /\ o.tag = "Ok"
                  /\ \/ /\ ~File_create_ok(output_dir_kind)
                        /\ Return(Err("io", "File::create"))
                        /\ disk' = download_files_on_error(disk)
                        /\ UNCHANGED outputs
                     \/ /\ File_create_ok(output_dir_kind)
                        /\ Return(Err("io", "write_all"))
                        /\ disk' = Append(download_files_on_error(disk),
                                          [path |-> output_file, content |-> "partial"])
                        /\ UNCHANGED outputs
                     \/ /\ File_create_ok(output_dir_kind)
                        /\ disk' = Append(disk, [path |-> output_file, content |-> o.items[1]])
                        /\ outputs' = Append(outputs, output_file)
                        /\ Continue("for")
    /\ UNCHANGED <<inputs, server_vars, project_vars, filter, resolved, package_files, idx, output_file,
                   requests, stdout, calls>>

\* the PrintOutput holding the first path alone
download_files_output_first(paths) ==
    [kind |-> "PrintOutput", status |-> "ok",
     output |-> IF paths = <<>> THEN <<>> ELSE <<Head(paths)>>, text |-> ""]

\* lines 409-412: the PrintOutput printed
download_files_output(paths) ==
    [kind |-> "PrintOutput", status |-> "ok", output |-> paths, text |-> ""]

\* lines 409-414
for_end ==
    /\ pc = "for" /\ idx = Len(package_files)
    /\ stdout' = Append(stdout, download_files_output(outputs))
    /\ Return(Ok(<<>>))
    /\ UNCHANGED <<inputs, server_vars, project_vars, download_vars, requests, responses, disk, calls>>

(***************************************************************************)
(* PackageAction::upload_package_file (packages.rs).                       *)
(***************************************************************************)
\* lines 429-440: read the file, send the PUT
upload_package_file_begin ==
    /\ cmd = "upload_package_file" /\ pc = "start"
    /\ \/ /\ Return(Err("io", ""))
          /\ UNCHANGED requests
       \/ /\ Send(upload_request(args.project_id, args.package_name,
                                 args.version[1], args.file_name))
          /\ Continue("put")
    /\ UNCHANGED <<inputs, server_vars, project_vars, download_vars, responses, local_vars>>

\* upload_package_file with status.is_success() in place of the 201 check
upload_package_file_result_is_success(r) ==
    IF r.kind = "neterr" THEN Err("transport", "")
    ELSE IF r.status < 200 \/ r.status > 299 THEN Err("Upload failed", r.text)
    ELSE Ok(<<r.text>>)

\* lines 441-452: the response
upload_package_file_result(r) ==
    IF r.kind = "neterr" THEN Err("transport", "")
    ELSE IF r.status # StatusCreated THEN Err("Upload failed", r.text)
    ELSE Ok(<<r.text>>)

\* lines 441-452
upload_package_file_response ==
    /\ pc = "put"
    /\ \E r \in UploadAnswers :
        /\ Receive(r)
        /\ LET o == upload_package_file_result(r)
           IN  /\ Return(o)
               /\ stdout' = IF o.tag = "Ok"
                            THEN Append(stdout, [kind |-> "raw", status |-> "",
                                                 output |-> <<>>, text |-> o.items[1]])
                            ELSE stdout
    /\ UNCHANGED <<inputs, server_vars, project_vars, download_vars, requests, disk, calls>>

(***************************************************************************)
(* Project operations (projects.rs, profiles.rs) and their dispatch.       *)
(***************************************************************************)
\* the user name GET /user answers with
Username == <<"u">>

\* a JSON object of the type asked for
JsonObject == [status |-> StatusOk, kind |-> "json", items |-> <<>>, text |-> "object"]

\* a refusal whose body is shorter than 30 bytes
ShortBody == [status |-> 502, kind |-> "short", items |-> <<>>, text |-> ""]

ObjectAnswers == {NetErr, JsonObject, ShortBody} \cup Refusals({"text"})

\* gitlab_api_url(&format!("/projects/{}", id))
project_request(method, id) == Request(method, gitlab_host, <<"projects">>, id, <<>>)

\* project_get_by_id encoding whatever it is given
project_get_by_id_id_always(id) == encode(id)

\* project_get_by_id encoding what holds a '%' as well
project_get_by_id_id_percent(id) ==
    IF contains(id, "/") \/ contains(id, "%") THEN encode(id) ELSE id

\* project_get_by_id, lines 333-338: the id placed in the path
project_get_by_id_id(id) == IF contains(id, "/") THEN encode(id) ELSE id

\* project_get_by_id, lines 333-338, to the request of projects_get_helper
project_get_by_id_begin ==
    /\ cmd = "project_get_by_id" /\ pc = "start"
    /\ project' = args.ref
    /\ Send(project_request("GET", project_get_by_id_id(args.ref)))
    /\ Continue("projects_get_helper")
    /\ UNCHANGED <<inputs, server_vars, full_name, download_vars, responses, local_vars>>

\* projects_get_helper, lines 322-328, then project_get_by_id, lines 339-340
project_get_by_id_result(r) ==
    IF r.kind = "neterr" THEN Err("transport", "")
    ELSE IF r.kind # "json" THEN Err("serde_json", "")
    ELSE Ok(<<>>)

\* project_get_by_id, lines 338-340
project_get_by_id_response ==
    /\ pc = "projects_get_helper"
    /\ \E r \in ObjectAnswers :
        /\ Receive(r)
        /\ Return(project_get_by_id_result(r))
    /\ UNCHANGED <<inputs, server_vars, project_vars, download_vars, requests, local_vars>>

\* the ProjectDelete arm of the dispatch: crates/glabu cli.rs, lines 192-193,
\* encodes the reference first; glabu main.rs, lines 84-85, does not
execute_ProjectDelete ==
    /\ cmd = "project_delete" /\ pc = "start"
    /\ project' = IF args.cli THEN encode_project_id(args.ref) ELSE args.ref
    /\ Continue("ProjectDelete::new")
    /\ UNCHANGED <<inputs, server_vars, full_name, download_vars, requests, responses, local_vars>>

\* ProjectDelete::new, lines 131-139, to the request of me() or to the end
ProjectDelete_new ==
    /\ pc = "ProjectDelete::new"
    /\ \/ /\ ~contains(project, "/")
          /\ Send(Request("GET", gitlab_host, <<"user">>, <<>>, <<>>))
          /\ Continue("me")
          /\ UNCHANGED full_name
       \/ /\ contains(project, "/")
          /\ full_name' = project
          /\ Continue("ProjectDelete::run")
          /\ UNCHANGED requests
    /\ UNCHANGED <<inputs, server_vars, project, download_vars, responses, local_vars>>

\* me(), profiles.rs lines 12-20: the user name; &json[0..30] panics on a
\* body shorter than 30 bytes
me(r) ==
    IF r.kind = "neterr" THEN Err("transport", "")
    ELSE IF r.kind = "short" THEN Panicked
    ELSE IF r.kind # "json" THEN Err("serde_json", "")
    ELSE Ok(<<Username>>)

\* ProjectDelete::new, lines 133-138, once me() is answered
ProjectDelete_new_me ==
    /\ pc = "me"
    /\ \E r \in ObjectAnswers :
        /\ Receive(r)
        /\ \/ /\ me(r).tag # "Ok"
              /\ Return(me(r))
              /\ UNCHANGED full_name
           \/ /\ me(r).tag = "Ok"
              /\ full_name' = me(r).items[1] \o <<"/">> \o project
              /\ Continue("ProjectDelete::run")
    /\ UNCHANGED <<inputs, server_vars, project, download_vars, requests, local_vars>>

\* ProjectDelete::run, lines 149-152: the id placed in the path
ProjectDelete_run_id(name) == encode(name)

\* ProjectDelete::run, lines 148-155
ProjectDelete_run ==
    /\ pc = "ProjectDelete::run"
    /\ Send(project_request("DELETE", ProjectDelete_run_id(full_name)))
    /\ Continue("delete")
    /\ UNCHANGED <<inputs, server_vars, project_vars, download_vars, responses, local_vars>>

\* answers to the DELETE of a project
DeleteAnswers ==
    {NetErr, [status |-> 202, kind |-> "text", items |-> <<>>, text |-> "accepted"]}
    \cup Refusals({"text"})

\* ProjectDelete::run, lines 156-163: error_for_status_ref is an error for 4xx and 5xx
ProjectDelete_run_result(r) ==
    IF r.kind = "neterr" THEN Err("transport", "")
    ELSE IF r.status >= 400 THEN Err("error_for_status", ToString(r.status))
    ELSE Ok(<<r.text>>)

\* ProjectDelete::run, lines 156-163
ProjectDelete_run_response ==
    /\ pc = "delete"
    /\ \E r \in DeleteAnswers :
        /\ Receive(r)
        /\ LET o == ProjectDelete_run_result(r)
           IN  /\ Return(o)
               /\ stdout' = IF o.tag = "Ok"
                            THEN Append(stdout, [kind |-> "raw", status |-> "",
                                                 output |-> <<>>, text |-> o.items[1]])
                            ELSE stdout
    /\ UNCHANGED <<inputs, server_vars, project_vars, download_vars, requests, disk, calls>>

(***************************************************************************)
(* ProjectCreate::run (projects.rs) and what it calls.                     *)
(***************************************************************************)
\* the name of the group GET /groups/:id answers with
GroupName == <<"a">>

\* the id of the project, found or created
CreatedId == 1

\* groups_get_helper as group_by_name calls it, profiles.rs lines 35-38 and 63:
\* the host is written out in the URL, the query is one empty pair
group_by_name_request(group_name) ==
    Request("GET", "https://gitlab.com", <<"groups">>, group_name, << <<"", "">> >>)

\* a fork that is as visible as a forked project usually is
ProjectForkPrivate_into_public ==
    [name |-> args.ref, namespace_id |-> args.namespace_id,
     description |-> args.description, visibility |-> "public",
     initialize_with_readme |-> <<>>]

\* impl Into<ProjectCreate> for ProjectForkPrivate, lines 230-240
ProjectForkPrivate_into ==
    [name |-> args.ref, namespace_id |-> args.namespace_id,
     description |-> args.description, visibility |-> "private",
     initialize_with_readme |-> <<FALSE>>]

\* the ProjectCreate that run is called on: the one the dispatch builds with
\* new or for_group, description and visibility (lines 32-60, main.rs lines
\* 71-79), or the one the private fork converts itself into
ProjectCreate_self ==
    IF cmd = "project_fork_private"
    THEN ProjectForkPrivate_into
    ELSE [name |-> args.ref, namespace_id |-> args.namespace_id,
          description |-> args.description, visibility |-> args.visibility,
          initialize_with_readme |-> <<FALSE>>]

\* impl Into<ProjectCreatePayload> for ProjectCreate, lines 19-29
ProjectCreate_into(self) ==
    [name |-> self.name, namespace_id |-> self.namespace_id,
     description |-> IF self.description = <<>> THEN <<"">> ELSE self.description,
     visibility |-> self.visibility,
     initialize_with_readme |-> IF self.initialize_with_readme = <<>>
                                THEN <<FALSE>> ELSE self.initialize_with_readme]

\* run called with the flag of the operation in every case
ProjectCreate_run_mirror_to_github_flag == args.mirror_to_github

\* the mirror_to_github that run is called with: the command line's flag
\* (main.rs line 80), false from the private fork (line 288)
ProjectCreate_run_mirror_to_github ==
    IF cmd = "project_fork_private" THEN FALSE ELSE args.mirror_to_github

\* line 70: the request of me()
ProjectCreate_run_begin ==
    /\ Send(Request("GET", gitlab_host, <<"user">>, <<>>, <<>>))
    /\ Continue("ProjectCreate::me")

\* lines 77-79: the lookup of namespace/name
ProjectCreate_lookup(namespace) ==
    /\ full_name' = namespace \o <<"/">> \o args.ref
    /\ Send(project_request("GET", project_get_by_id_id(namespace \o <<"/">> \o args.ref)))
    /\ Continue("ProjectCreate::project_get_by_id")

\* main.rs lines 64-80: the project create command calls run
ProjectCreate_run ==
    /\ cmd = "project_create" /\ pc = "start"
    /\ ProjectCreate_run_begin
    /\ UNCHANGED <<inputs, server_vars, project_vars, download_vars, responses, local_vars>>

\* lines 70-79: me() is answered; the group is asked for, or the project
ProjectCreate_run_me ==
    /\ pc = "ProjectCreate::me"
    /\ \E r \in ObjectAnswers :
        /\ Receive(r)
        /\ \/ /\ me(r).tag # "Ok"
              /\ Return(me(r))
              /\ UNCHANGED <<full_name, requests>>
           \/ /\ me(r).tag = "Ok" /\ args.namespace_id # None
              /\ Send(group_by_name_request(<<ToString(args.namespace_id[1])>>))
              /\ Continue("ProjectCreate::group_by_id")
              /\ UNCHANGED full_name
           \/ /\ me(r).tag = "Ok" /\ args.namespace_id = None
              /\ ProjectCreate_lookup(me(r).items[1])
    /\ UNCHANGED <<inputs, server_vars, project, download_vars, local_vars>>

\* group_by_name, profiles.rs lines 63-65
group_by_name(r) ==
    IF r.kind = "neterr" THEN Err("transport", "")
    ELSE IF r.kind # "json" THEN Err("serde_json", "")
    ELSE Ok(<<GroupName>>)

\* lines 73-79: group_by_id is answered
ProjectCreate_run_group ==
    /\ pc = "ProjectCreate::group_by_id"
    /\ \E r \in ObjectAnswers :
        /\ Receive(r)
        /\ \/ /\ group_by_name(r).tag # "Ok"
              /\ Return(group_by_name(r))
              /\ UNCHANGED <<full_name, requests>>
           \/ /\ group_by_name(r).tag = "Ok"
              /\ ProjectCreate_lookup(group_by_name(r).items[1])
    /\ UNCHANGED <<inputs, server_vars, project, download_vars, local_vars>>

\* lines 104-121, from the project at hand on: the mirror is set up, or the
\* project returned and printed (main.rs lines 80-82)
ProjectCreate_proj ==
    IF ProjectCreate_run_mirror_to_github
    THEN /\ Continue("ProjectCreate::ghu")
         /\ UNCHANGED stdout
    ELSE IF cmd = "project_fork_private"
    THEN /\ Continue("ProjectForkPrivate::git_push")
         /\ UNCHANGED stdout
    ELSE /\ Return(Ok(<<>>))
         /\ stdout' = Append(stdout, [kind |-> "raw", status |-> "", output |-> <<>>,
                                      text |-> "project"])

\* answers to the lookup of the project: the project only when the server
\* has it
LookupAnswers(held) ==
    {NetErr, ShortBody} \cup Refusals({"text"}) \cup
    IF held # <<>> THEN {JsonObject} ELSE {}

\* the project created whatever the lookup returned
proj_is_none_always(lookup) == TRUE

\* lines 79-89: proj is None when the lookup returned an error
proj_is_none(lookup) == lookup.tag # "Ok"

\* lines 79-99: the lookup is answered; any error of it is taken for
\* "the project does not exist", and the project is created
ProjectCreate_run_lookup ==
    /\ pc = "ProjectCreate::project_get_by_id"
    /\ \E r \in LookupAnswers(server_project) :
        /\ Receive(r)
        /\ \/ /\ ~proj_is_none(project_get_by_id_result(r))
              /\ ProjectCreate_proj
              /\ UNCHANGED requests
           \/ /\ proj_is_none(project_get_by_id_result(r))
              /\ Send(json(Request("POST", gitlab_host, <<"projects">>, <<>>, <<>>),
                           ProjectCreate_into(ProjectCreate_self)))
              /\ Continue("ProjectCreate::post")
              /\ UNCHANGED stdout
    /\ UNCHANGED <<inputs, server_vars, project_vars, download_vars, disk, calls>>

\* answers to the POST of a project, and of a remote mirror
CreateAnswers ==
    {NetErr, ShortBody, [status |-> StatusCreated, kind |-> "json", items |-> <<>>,
                         text |-> "object"]}
    \cup Refusals({"text"})

\* lines 94-102: the response of the POST; &json_str[0..30] panics on a body
\* shorter than 30 bytes
ProjectCreate_post(r) ==
    IF r.kind = "neterr" THEN Err("transport", "")
    ELSE IF r.kind = "short" THEN Panicked
    ELSE IF r.kind # "json" THEN Err("serde_json", "")
    ELSE Ok(<<>>)

\* the server's refusal of a name its namespace holds already
NameTaken == [status |-> 400, kind |-> "text", items |-> <<>>, text |-> "has already been taken"]

\* answers to the POST of a project: created only when the server holds no
\* project of the name
ProjectAnswers(held) ==
    {NetErr, ShortBody} \cup Refusals({"text"}) \cup
    IF held = <<>>
    THEN {[status |-> StatusCreated, kind |-> "json", items |-> <<>>, text |-> "object"]}
    ELSE {NameTaken}

\* what the server holds after the answer: the project when it answered
\* Created, and perhaps when the answer was lost on its way
ProjectsAfter(held, r) ==
    IF r.status = StatusCreated THEN {<<CreatedId>>}
    ELSE IF r.kind = "neterr" THEN {held, <<CreatedId>>}
    ELSE {held}

\* lines 94-104
ProjectCreate_run_post ==
    /\ pc = "ProjectCreate::post"
    /\ \E r \in ProjectAnswers(server_project) :
        /\ Receive(r)
        /\ server_project' \in ProjectsAfter(server_project, r)
        /\ \/ /\ ProjectCreate_post(r).tag # "Ok"
              /\ Return(ProjectCreate_post(r))
              /\ UNCHANGED stdout
           \/ /\ ProjectCreate_post(r).tag = "Ok"
              /\ ProjectCreate_proj
    /\ UNCHANGED <<inputs, runs, project_vars, download_vars, requests, disk, calls>>

\* the project create command started again with the same arguments, once
\* the run before has ended
ProjectCreate_run_again ==
    /\ cmd = "project_create" /\ pc = "done" /\ runs < MaxRuns
    /\ runs' = runs + 1
    /\ pc' = "start"
    /\ result' = "running"
    /\ err' = NoErr
    /\ UNCHANGED <<inputs, server_project, project_vars, download_vars, requests,
                   responses, local_vars>>

\* a subprocess run (cmd!(..).run()) or a function of the ghu crate called,
\* and whether it succeeded (exit status zero, Ok)
Call(name, arg, ok) == [name |-> name, arg |-> arg, ok |-> ok]

\* impl Into<ProjectPushMirrorPayload> for ProjectPushMirror, lines 175-195
ProjectPushMirror_new(project_id, remote_url_with_cred) ==
    [project_id |-> project_id, url |-> remote_url_with_cred, enabled |-> TRUE,
     only_protected_branches |-> FALSE, keep_divergent_refs |-> FALSE]

\* ProjectPushMirror::run, lines 204-212: the request
ProjectPushMirror_run_request(mirror) ==
    json(Request("POST", gitlab_host,
                 <<"projects", ToString(mirror.project_id), "remote_mirrors">>, <<>>, <<>>),
         [url |-> mirror.url, enabled |-> mirror.enabled,
          only_protected_branches |-> mirror.only_protected_branches,
          keep_divergent_refs |-> mirror.keep_divergent_refs])

\* ghu::repo_create and ghu::repo_link_with_cred, either of which may fail,
\* then the request of ProjectPushMirror::run
mirror_to_github(name) ==
    \/ /\ calls' = Append(calls, Call("ghu::repo_create", name, FALSE))
       /\ Return(Err("ghu", "repo_create"))
       /\ UNCHANGED requests
    \/ /\ calls' = calls \o <<Call("ghu::repo_create", name, TRUE),
                               Call("ghu::repo_link_with_cred", name, FALSE)>>
       /\ Return(Err("ghu", "repo_link_with_cred"))
       /\ UNCHANGED requests
    \/ /\ calls' = calls \o <<Call("ghu::repo_create", name, TRUE),
                               Call("ghu::repo_link_with_cred", name, TRUE)>>
       /\ Send(ProjectPushMirror_run_request(
                   ProjectPushMirror_new(CreatedId, "remote_url_with_cred")))
       /\ Continue("ProjectPushMirror::run")

\* lines 105-120
ProjectCreate_run_ghu ==
    /\ pc = "ProjectCreate::ghu"
    /\ mirror_to_github(args.ref)
    /\ UNCHANGED <<inputs, server_vars, project_vars, download_vars, responses, disk, stdout>>

\* ProjectPushMirror::run, lines 207-217: only 404 is an error
ProjectPushMirror_run(r) ==
    IF r.kind = "neterr" THEN Err("transport", "")
    ELSE IF r.status = StatusNotFound THEN Err("NotFound", "")
    ELSE Ok(<<>>)

\* ProjectPushMirror::run, lines 207-217, then lines 120-122
ProjectCreate_run_push_mirror ==
    /\ pc = "ProjectPushMirror::run"
    /\ \E r \in CreateAnswers :
        /\ Receive(r)
        /\ Return(ProjectPushMirror_run(r))
        /\ stdout' = IF ProjectPushMirror_run(r).tag = "Ok"
                     THEN Append(stdout, [kind |-> "raw", status |-> "", output |-> <<>>,
                                          text |-> "project"])
                     ELSE stdout
    /\ UNCHANGED <<inputs, server_vars, project_vars, download_vars, requests, disk, calls>>

(***************************************************************************)
(* ProjectForkPrivate::run, projects.rs lines 277-307.                     *)
(***************************************************************************)
\* cmd!(..).ignore_status().run()?: the exit status is not looked at
cmd_run_ignore_status(name, ok) == Ok(<<>>)

\* cmd!(..).run()?: a non-zero exit status is an error
cmd_run(name, ok) == IF ok THEN Ok(<<>>) ELSE Err("xshell", name)

\* lines 279-288: the shell, the bare clone into the temp directory, and the
\* call of ProjectCreate::run(false)
ProjectForkPrivate_run ==
    /\ cmd = "project_fork_private" /\ pc = "start"
    /\ \/ /\ Return(Err("xshell", "Shell::new"))
          /\ UNCHANGED <<calls, requests>>
       \/ \E ok \in BOOLEAN :
            /\ calls' = Append(calls, Call("git clone --bare", args.source_url, ok))
            /\ IF cmd_run("git clone", ok).tag = "Ok"
               THEN ProjectCreate_run_begin
               ELSE /\ Return(cmd_run("git clone", ok))
                    /\ UNCHANGED requests
    /\ UNCHANGED <<inputs, server_vars, project_vars, download_vars, responses, disk, stdout>>

\* what the dispatch prints of the project returned, cli.rs lines 221-223
ProjectForkPrivate_print ==
    stdout' = Append(stdout, [kind |-> "raw", status |-> "", output |-> <<>>,
                              text |-> "project"])

\* lines 289-306: ls and the mirror push from the clone to the project's
\* ssh_url_to_repo
ProjectForkPrivate_run_git_push ==
    /\ pc = "ProjectForkPrivate::git_push"
    /\ \E ls_ok, push_ok \in BOOLEAN :
        IF cmd_run("ls", ls_ok).tag # "Ok"
        THEN /\ calls' = Append(calls, Call("ls -lh", "", ls_ok))
             /\ Return(cmd_run("ls", ls_ok))
             /\ UNCHANGED stdout
        ELSE /\ calls' = calls \o <<Call("ls -lh", "", ls_ok),
                                     Call("git push --mirror", "ssh_url_to_repo", push_ok)>>
             /\ IF cmd_run("git push", push_ok).tag # "Ok"
                THEN /\ Return(cmd_run("git push", push_ok))
                     /\ UNCHANGED stdout
                ELSE IF args.mirror_to_github
                THEN /\ Continue("ProjectForkPrivate::ghu")
                     /\ UNCHANGED stdout
                ELSE /\ Return(Ok(<<>>))
                     /\ ProjectForkPrivate_print
    /\ UNCHANGED <<inputs, server_vars, project_vars, download_vars, requests, responses, disk>>

\* lines 294-304
ProjectForkPrivate_run_ghu ==
    /\ pc = "ProjectForkPrivate::ghu"
    /\ mirror_to_github(args.ref)
    /\ UNCHANGED <<inputs, server_vars, project_vars, download_vars, responses, disk, stdout>>

(***************************************************************************)
(* The invocations.                                                        *)
(***************************************************************************)
PackageNames == {"demo", "other"}
Versions == {"1.0", "2.0"}
ProjectIds == {7}
Hosts == {None, Some("https://gitlab.example")}

\* the selectors given: a pattern, a file name, neither, or both
Selectors ==
    { <<Some(p), None>> : p \in Patterns \cup {InvalidPattern} }
    \cup { <<None, Some(f)>> : f \in SeqsFromTo(FileChars, 1, MaxLen) }
    \cup { <<None, None>> }
    \cup { <<Some(p), Some(<<"b">>)>> :
             p \in {q \in Patterns : q.lit = <<"a">> /\ ~q.eol} \cup {InvalidPattern} }

NoArgs ==
    [project_id |-> 0, package_name |-> "", version |-> None, latest |-> None,
     pattern |-> None, filename |-> None, output_dir |-> "", file_name |-> <<>>,
     ref |-> <<>>, cli |-> FALSE, namespace_id |-> None, mirror_to_github |-> FALSE,
     description |-> None, visibility |-> "private", source_url |-> ""]

InitCommon ==
    /\ env_host \in Hosts
    /\ output_dir_kind \in (IF cmd = "download_files" THEN DirKinds ELSE {"dir"})
    /\ server_project \in (IF cmd \in {"project_create", "project_fork_private"}
                            THEN {None, Some(CreatedId)} ELSE {None})
    /\ runs = 1
    /\ pc = "start"
    /\ project = <<>>
    /\ full_name = <<>>
    /\ filter = NoFilter
    /\ resolved = None
    /\ package_files = <<>>
    /\ idx = 0
    /\ output_file = [dir |-> "", file |-> <<>>]
    /\ outputs = <<>>
    /\ requests = <<>>
    /\ responses = <<>>
    /\ disk = <<>>
    /\ stdout = <<>>
    /\ calls = <<>>
    /\ result = "running"
    /\ err = NoErr

InitDownload ==
    /\ cmd = "download_files"
    /\ registry \in Registries
    /\ \E id \in ProjectIds, n \in PackageNames, v \in {None} \cup {Some(x) : x \in Versions},
          l \in {None, Some(TRUE), Some(FALSE)}, s \in Selectors :
        args = [NoArgs EXCEPT !.project_id = id, !.package_name = n, !.version = v,
                              !.latest = l, !.pattern = s[1], !.filename = s[2],
                              !.output_dir = "/out"]

InitUpload ==
    /\ cmd = "upload_package_file"
    /\ registry = <<>>
    /\ \E id \in ProjectIds, n \in PackageNames, v \in Versions,
          f \in SeqsFromTo(FileChars, 1, 1) :
        args = [NoArgs EXCEPT !.project_id = id, !.package_name = n, !.version = Some(v),
                              !.file_name = f]

\* the project references given
Refs == SeqsFromTo(RefChars, 1, MaxRefLen)

\* the references project_get_by_id is given: raw, or a path encoded beforehand
\* (the "puterize%2Fglabu" of test_project_get_by_id)
GivenRefs == Refs \cup {encode(r) : r \in {q \in Refs : contains(q, "/")}}

InitProjectGet ==
    /\ cmd = "project_get_by_id"
    /\ registry = <<>>
    /\ \E r \in GivenRefs : args = [NoArgs EXCEPT !.ref = r]

InitProjectDelete ==
    /\ cmd = "project_delete"
    /\ registry = <<>>
    /\ \E r \in Refs, c \in BOOLEAN : args = [NoArgs EXCEPT !.ref = r, !.cli = c]

\* models::ProjectVisibility
Visibilities == {"private", "internal", "public"}

\* ProjectCreate: a name, in the user's namespace or in a group's, mirrored
\* to GitHub or not
InitProjectCreate ==
    /\ cmd = "project_create"
    /\ registry = <<>>
    /\ \E g \in {None, Some(5)}, m \in BOOLEAN, v \in Visibilities :
        args = [NoArgs EXCEPT !.ref = <<"a">>, !.namespace_id = g, !.mirror_to_github = m,
                              !.description = Some(""), !.visibility = v]

\* ProjectForkPrivate: new or for_group, with or without description, and
\* mirror_to_github as set (lines 243-275)
InitProjectForkPrivate ==
    /\ cmd = "project_fork_private"
    /\ registry = <<>>
    /\ \E g \in {None, Some(5)}, m \in BOOLEAN, d \in {None, Some("d")} :
        args = [NoArgs EXCEPT !.ref = <<"a">>, !.namespace_id = g, !.mirror_to_github = m,
                              !.description = d, !.source_url = "https://host/src.git"]

Init ==
    /\ \/ InitDownload \/ InitUpload \/ InitProjectGet \/ InitProjectDelete
       \/ InitProjectCreate \/ InitProjectForkPrivate
    /\ InitCommon

Next ==
    \/ download_files_begin
    \/ latest_package_files_run
    \/ ListPackageFiles_run
    \/ latest_package_files_files
    \/ package_files_by_version_files
    \/ for_continue
    \/ for_download_file
    \/ download_file
    \/ for_end
    \/ upload_package_file_begin
    \/ upload_package_file_response
    \/ project_get_by_id_begin
    \/ project_get_by_id_response
    \/ execute_ProjectDelete
    \/ ProjectDelete_new
    \/ ProjectDelete_new_me
    \/ ProjectDelete_run
    \/ ProjectDelete_run_response
    \/ ProjectCreate_run
    \/ ProjectCreate_run_me
    \/ ProjectCreate_run_group
    \/ ProjectCreate_run_lookup
    \/ ProjectCreate_run_post
    \/ ProjectCreate_run_ghu
    \/ ProjectCreate_run_push_mirror
    \/ ProjectCreate_run_again
    \/ ProjectForkPrivate_run
    \/ ProjectForkPrivate_run_git_push
    \/ ProjectForkPrivate_run_ghu

Spec == Init /\ [][Next]_vars

(***************************************************************************)
(* What the properties speak of.                                           *)
(***************************************************************************)
IsFileRequest(r) == r.method = "GET" /\ Len(r.path) = 6 /\ r.path[4] = "generic"

\* the requests for package files, in the order sent
FileRequests == SelectSeq(requests, IsFileRequest)

\* some stretch of name is the literal of p, where the anchors of p allow it
ContainsMatch(p, name) ==
    \E i \in 1..(Len(name) + 1), j \in 0..Len(name) :
        /\ i <= j + 1
        /\ SubSeq(name, i, j) = p.lit
        /\ p.bol => i = 1
        /\ p.eol => j = Len(name)

\* whether the selector given on the command line accepts a file name
SelectorAccepts(name) ==
    IF args.pattern # None
    THEN ContainsMatch(args.pattern[1], name)
    ELSE args.filename # None /\ name = args.filename[1]

AcceptedFile(file) == SelectorAccepts(file.file_name)

FileNames(files) == [i \in 1..Len(files) |-> files[i].file_name]

Tails(rs) == [i \in 1..Len(rs) |-> rs[i].tail]

ExplicitMode ==
    /\ cmd = "download_files"
    /\ args.latest # Some(TRUE)
    /\ args.version # None

LatestMode ==
    /\ cmd = "download_files"
    /\ args.latest = Some(TRUE)

\* the package listing was answered with an empty JSON list
EmptyListing ==
    /\ Len(responses) >= 1
    /\ responses[1].kind = "json"
    /\ responses[1].items = <<>>

(***************************************************************************)
(* C1: the package files download_files requests are exactly the listed    *)
(* files the selector accepts -- those whose name equals the exact name,   *)
(* or holds a match of the pattern anywhere -- among the files the loop    *)
(* has come to, in listing order; and a download that succeeds has come to *)
(* every listed file.                                                      *)
(***************************************************************************)
C1_SelectionIsExact ==
    (cmd = "download_files" /\ filter.kind \in {"PatternFilter", "FilenameFilter"}) =>
        /\ Tails(FileRequests) =
               FileNames(SelectSeq(SubSeq(package_files, 1, idx), AcceptedFile))
        /\ result = "ok" => idx = Len(package_files)

\* a successful download by pattern that fetched a file the pattern matches
\* only in part, and left another listed file alone
C1_Witness ==
    /\ cmd = "download_files" /\ result = "ok"
    /\ args.pattern # None
    /\ \E k \in 1..Len(FileRequests) : FileRequests[k].tail # args.pattern[1].lit
    /\ Len(FileRequests) < Len(package_files)

(***************************************************************************)
(* C2: every listed file carries the version and the name of the package   *)
(* record whose id the file listing was asked for.                         *)
(***************************************************************************)
C2_EnrichmentFromOwner ==
    \A i \in 1..Len(package_files) :
        /\ package_files[i].version = Some(resolved[1].version)
        /\ package_files[i].name = Some(resolved[1].name)

(***************************************************************************)
(* C3: every package file is requested from                                *)
(* /projects/{project_id}/packages/generic/{name}/{version}/{file_name},   *)
(* name and version being those of the package the version selection       *)
(* resolved and file_name the name of a listed file.                       *)
(***************************************************************************)
C3_PathOfResolvedPackage ==
    \A k \in 1..Len(FileRequests) :
        /\ FileRequests[k].path =
               <<"projects", ToString(args.project_id), "packages", "generic",
                 resolved[1].name, resolved[1].version>>
        /\ \E i \in 1..Len(package_files) : package_files[i].file_name = FileRequests[k].tail

C5_QueryCarriesNameAndVersion ==
    (ExplicitMode /\ requests # <<>>) =>
        /\ QueryGet(requests[1].query, "package_name") = args.package_name
        /\ QueryGet(requests[1].query, "package_version") = args.version[1]
        /\ resolved # None =>
            /\ resolved[1] = responses[1].items[1]
            /\ resolved[1].name = args.package_name
            /\ resolved[1].version = args.version[1]

(***************************************************************************)
(* C6: in latest mode, an empty package listing ends the operation with    *)
(* the error PackageNotFound -- no panic, no success -- and the listing    *)
(* request stays the only request.                                         *)
(***************************************************************************)
C6_LatestNotFoundIsAnError ==
    (LatestMode /\ EmptyListing) =>
        /\ result = "err"
        /\ err.kind = "PackageNotFound"
        /\ Len(requests) = 1

(***************************************************************************)
(* C7: when the selector accepts none of the listed files, no file is      *)
(* requested, and the operation ends in success having printed status ok   *)
(* with an empty output list.                                              *)
(***************************************************************************)
C7_NoMatchIsEmptySuccess ==
    ( /\ cmd = "download_files"
      /\ Len(responses) >= 2
      /\ responses[2].kind = "json"
      /\ \A i \in 1..Len(responses[2].items) : ~AcceptedFile(responses[2].items[i]) ) =>
        /\ FileRequests = <<>>
        /\ result \in {"running", "ok"}
        /\ pc = "done" =>
            /\ result = "ok"
            /\ stdout = << [kind |-> "PrintOutput", status |-> "ok",
                            output |-> <<>>, text |-> ""] >>

\* several files were listed, none accepted, and the operation is over
C7_Witness ==
    /\ cmd = "download_files"
    /\ Len(responses) >= 2
    /\ responses[2].kind = "json"
    /\ Len(responses[2].items) >= 2
    /\ \A i \in 1..Len(responses[2].items) : ~AcceptedFile(responses[2].items[i])
    /\ pc = "done"

C9_UploadNeedsCreated ==
    (cmd = "upload_package_file" /\ Len(responses) = 1 /\ responses[1].kind # "neterr") =>
        /\ result = "ok" <=> responses[1].status = 201
        /\ responses[1].status # 201 =>
            /\ result = "err"
            /\ err.detail = responses[1].text

\* the PUT was answered 200, and the upload failed
C9_Witness ==
    /\ cmd = "upload_package_file"
    /\ Len(responses) = 1
    /\ responses[1].kind # "neterr"
    /\ responses[1].status = 200
    /\ result = "err"

(***************************************************************************)
(* C10, as claimed: on every path that turns a project reference into a    *)
(* URL segment -- encode_project_id, project_get_by_id, ProjectDelete::run *)
(* -- every '/' is replaced by %2F and every other character is kept.      *)
(***************************************************************************)
RECURSIVE SlashOnly(_)
SlashOnly(s) ==
    IF s = <<>> THEN <<>>
    ELSE (IF Head(s) = "/" THEN <<"%", "2", "F">> ELSE <<Head(s)>>) \o SlashOnly(Tail(s))

DeleteRequests == SelectSeq(requests, LAMBDA r : r.method = "DELETE")

C10_OnlySlashesEncoded ==
    /\ (cmd = "project_delete" /\ args.cli /\ pc # "start") => project = SlashOnly(args.ref)
    /\ (cmd = "project_get_by_id" /\ requests # <<>>) => requests[1].tail = SlashOnly(args.ref)
    /\ \A k \in 1..Len(DeleteRequests) : DeleteRequests[k].tail = SlashOnly(full_name)

(***************************************************************************)
(* C10, amended: every '/' is replaced by %2F and every unreserved         *)
(* character (letter, digit, - _ . ~) is kept; encode_project_id keeps     *)
(* every other character too, while project_get_by_id, for a reference     *)
(* with a '/', and ProjectDelete::run, for its full name, percent-encode   *)
(* every other character as well; a reference without '/' passes           *)
(* encode_project_id and project_get_by_id unchanged.                      *)
(***************************************************************************)
KeptChars == {"a", "u", "F", "0", "1", "2", "5", "-", "_", ".", "~"}
HexDigits == {"0", "1", "2", "3", "4", "5", "6", "7", "8", "9", "A", "B", "C", "D", "E", "F"}

\* out is text with each '/' as %2F, each kept character as itself and each
\* other character as some other %XX
RECURSIVE PercentEncoded(_, _)
PercentEncoded(text, out) ==
    IF text = <<>> THEN out = <<>>
    ELSE IF Head(text) = "/"
         THEN /\ Len(out) >= 3
              /\ SubSeq(out, 1, 3) = <<"%", "2", "F">>
              /\ PercentEncoded(Tail(text), SubSeq(out, 4, Len(out)))
    ELSE IF Head(text) \in KeptChars
         THEN /\ Len(out) >= 1
              /\ out[1] = Head(text)
              /\ PercentEncoded(Tail(text), Tail(out))
    ELSE /\ Len(out) >= 3
         /\ out[1] = "%" /\ out[2] \in HexDigits /\ out[3] \in HexDigits
         /\ SubSeq(out, 2, 3) # <<"2", "F">>
         /\ PercentEncoded(Tail(text), SubSeq(out, 4, Len(out)))

HasSlash(text) == \E i \in 1..Len(text) : text[i] = "/"

C10_SlashesEncodedUnreservedKept ==
    /\ (cmd = "project_delete" /\ args.cli /\ pc # "start") => project = SlashOnly(args.ref)
    /\ (cmd = "project_get_by_id" /\ requests # <<>>) =>
        IF HasSlash(args.ref)
        THEN PercentEncoded(args.ref, requests[1].tail)
        ELSE requests[1].tail = args.ref
    /\ \A k \in 1..Len(DeleteRequests) : PercentEncoded(full_name, DeleteRequests[k].tail)

\* a reference with a '/' and a space has reached the path of a project request
C10_Witness ==
    /\ cmd = "project_get_by_id"
    /\ requests # <<>>
    /\ HasSlash(args.ref)
    /\ \E i \in 1..Len(args.ref) : args.ref[i] = " "

(***************************************************************************)
(* C11: project_get_by_id asks for the same path whether a path with '/'   *)
(* is given raw or encoded beforehand: the encoded form is not encoded a   *)
(* second time.                                                            *)
(***************************************************************************)
C11_EncodedOnce ==
    /\ (cmd = "project_get_by_id" /\ requests # <<>>) =>
          \A r \in Refs :
              (contains(r, "/") /\ args.ref \in {r, encode(r)}) =>
                  requests[1].tail = encode(r)
    /\ (cmd = "project_delete" /\ args.cli /\ pc # "start") =>
          encode_project_id(project) = project

\* a path encoded beforehand was given, and the request was sent
C11_Witness ==
    /\ cmd = "project_get_by_id"
    /\ requests # <<>>
    /\ ~contains(args.ref, "/")
    /\ \E r \in Refs : contains(r, "/") /\ args.ref = encode(r)

(***************************************************************************)
(* C12: a project lookup answered with status 404 ends with the error      *)
(* NotFound, not with a deserialization failure; answered with any other   *)
(* status that is no 2xx, it ends with an error carrying the response body.*)
(***************************************************************************)
C12_NotFoundIsDistinct ==
    (cmd = "project_get_by_id" /\ Len(responses) = 1 /\ responses[1].kind # "neterr") =>
        /\ responses[1].status = 404 =>
            /\ result = "err"
            /\ err.kind = "NotFound"
        /\ (responses[1].status \notin 200..299 /\ responses[1].status # 404) =>
            /\ result = "err"
            /\ err.detail = responses[1].text

(***************************************************************************)
(* C13: download_files given neither a pattern nor a file name ends in a   *)
(* panic when the filter is made, and sends no request at all.             *)
(***************************************************************************)
C13_NoSelectorFailsFirst ==
    (cmd = "download_files" /\ args.pattern = None /\ args.filename = None) =>
        /\ requests = <<>>
        /\ pc # "start" => (pc = "done" /\ result = "panic")

\* no selector was given, though a version was, and the operation is over
C13_Witness ==
    /\ cmd = "download_files"
    /\ args.pattern = None /\ args.filename = None
    /\ args.version # None
    /\ registry # <<>>
    /\ pc = "done"

(***************************************************************************)
(* C14: download_files given both a pattern and a file name does not go on *)
(* to select by one of the two: it sends no request and does not succeed.  *)
(***************************************************************************)
C14_BothSelectorsRefused ==
    (cmd = "download_files" /\ args.pattern # None /\ args.filename # None) =>
        /\ requests = <<>>
        /\ result # "ok"

\* every file written lies in output_dir when that is a directory and in
\* /tmp when it is not, under its file name
WrittenWhereClaimed ==
    \A k \in 1..Len(disk) :
        /\ disk[k].path.dir =
               IF output_dir_kind = "absent" THEN "/tmp" ELSE args.output_dir
        /\ disk[k].path.file = FileRequests[k].tail

\* a panic once the files are listed: the to_str().unwrap() of line 405
PathPanic == result = "panic" /\ Len(responses) >= 2

CreateFailed == result = "err" /\ err = [kind |-> "io", detail |-> "File::create"]

(***************************************************************************)
(* C15: every file written lies in output_dir when output_dir is a         *)
(* directory and in /tmp when it is not, under its file name, and          *)
(* download_files never fails over output_dir: no panic over its path, no  *)
(* file that cannot be created.                                            *)
(***************************************************************************)
C15_OutputDirNeverFails ==
    cmd = "download_files" =>
        /\ WrittenWhereClaimed
        /\ ~CreateFailed
        /\ ~PathPanic

(***************************************************************************)
(* What does hold of C15: an output_dir that is no directory never fails   *)
(* the batch, and the files are written where claimed; the batch fails     *)
(* over a directory no file can be created in, and panics, before the file *)
(* is requested, over a directory whose path is not UTF-8.                 *)
(***************************************************************************)
OutputDirFailsOnlyAsDirectory ==
    cmd = "download_files" =>
        /\ WrittenWhereClaimed
        /\ CreateFailed => output_dir_kind = "readonly"
        /\ PathPanic => output_dir_kind = "not_utf8"
        /\ output_dir_kind = "readonly" => disk = <<>>
        /\ output_dir_kind = "not_utf8" => FileRequests = <<>>

\* the paths of the files written, in the order written
WrittenPaths == [k \in 1..Len(disk) |-> disk[k].path]

(***************************************************************************)
(* C16: a download_files that succeeds has printed, once, status ok with   *)
(* the paths of the files it wrote, one for each listed file the selector  *)
(* accepts, in listing order; one that has not succeeded has printed       *)
(* nothing.                                                                *)
(***************************************************************************)
C16_OutputIsWhatWasWritten ==
    cmd = "download_files" =>
        /\ result # "ok" => stdout = <<>>
        /\ result = "ok" =>
            /\ stdout = << [kind |-> "PrintOutput", status |-> "ok",
                            output |-> WrittenPaths, text |-> ""] >>
            /\ [k \in 1..Len(disk) |-> disk[k].path.file] =
                   FileNames(SelectSeq(package_files, AcceptedFile))

\* a success that wrote two files and left a listed file alone
C16_Witness ==
    /\ cmd = "download_files" /\ result = "ok"
    /\ Len(disk) = 2
    /\ Len(package_files) = 3
    /\ disk[1].path # disk[2].path

\* the query latest mode sends, but for a page
LatestQuery ==
    << <<"package_name", args.package_name>>, <<"order_by", "created_at">>,
       <<"sort", "desc">>, <<"per_page", "1">> >>

\* the package used is the first of the answer, as answered
UsesFirstAnswered == resolved # None => resolved[1] = responses[1].items[1]

(***************************************************************************)
(* C17, as claimed: in latest mode the package listing request carries the *)
(* package name, order_by=created_at, sort=desc, per_page=1 and page=1,    *)
(* and the package used is the first of the answer, as answered.           *)
(***************************************************************************)
C17_LatestQueryWithPage ==
    (LatestMode /\ requests # <<>>) =>
        /\ requests[1].query = Append(LatestQuery, <<"page", "1">>)
        /\ UsesFirstAnswered

(***************************************************************************)
(* C17, amended: in latest mode the package listing request carries the    *)
(* package name, order_by=created_at, sort=desc and per_page=1, and no     *)
(* page parameter; the package used is the first of the answer, as         *)
(* answered.                                                               *)
(***************************************************************************)
C17_LatestQueryNoPage ==
    (LatestMode /\ requests # <<>>) =>
        /\ requests[1].query = LatestQuery
        /\ ~QueryHas(requests[1].query, "page")
        /\ UsesFirstAnswered

\* the registry holds two versions of the package, and the newer was used
C17_Witness ==
    /\ LatestMode
    /\ resolved # None
    /\ Len(SelectSeq(registry, LAMBDA p : p.name = args.package_name)) = 2
    /\ registry[Len(registry)].name = args.package_name
    /\ resolved[1] = registry[Len(registry)]
    /\ registry[1].name = args.package_name

(***************************************************************************)
(* C18: no request of the package operations carries a query parameter     *)
(* with an empty value: a field that is not set is left out.               *)
(***************************************************************************)
C18_NoEmptyQueryParameter ==
    cmd \in {"download_files", "upload_package_file"} =>
        \A k \in 1..Len(requests) :
            \A i \in 1..Len(requests[k].query) : requests[k].query[i][2] # ""

(***************************************************************************)
(* C19: every request goes to the host of the GITLAB_HOST environment      *)
(* variable when that is set, and to https://gitlab.com only when it is    *)
(* not.                                                                    *)
(***************************************************************************)
C19_RequestsGoToConfiguredHost ==
    \A k \in 1..Len(requests) :
        requests[k].host = IF env_host = None THEN "https://gitlab.com" ELSE env_host[1]

\* an answer that is a failure of the network call or of its status
FailedAnswer(r) == r.kind = "neterr" \/ r.status \notin 200..299

(***************************************************************************)
(* C20: a request answered with a failure is the last request of the       *)
(* command, and the command has ended without success: no failed step is   *)
(* followed by a further request, none is taken for a success.             *)
(***************************************************************************)
C20_FailureEndsCommand ==
    \A k \in 1..Len(responses) :
        FailedAnswer(responses[k]) =>
            /\ k = Len(requests)
            /\ result \in {"err", "panic"}

(***************************************************************************)
(* The private fork.                                                       *)
(***************************************************************************)
\* the calls made so far that are runs of git clone or of git push
GitCalls == {k \in 1..Len(calls) : calls[k].name \in {"git clone --bare", "git push --mirror"}}

\* the calls made of the second provider's crate
GhuCalls == {k \in 1..Len(calls) : calls[k].name \in {"ghu::repo_create",
                                                      "ghu::repo_link_with_cred"}}

\* the requests that create a project, configure a push mirror, delete
CreateRequests == {k \in 1..Len(requests) :
                     requests[k].method = "POST" /\ requests[k].path = <<"projects">>}
MirrorRequests == {k \in 1..Len(requests) :
                     /\ requests[k].method = "POST" /\ Len(requests[k].path) = 3
                     /\ requests[k].path[3] = "remote_mirrors"}

(***************************************************************************)
(* C21: in the private fork a failed git clone or git push ends the        *)
(* operation with an error at once: no call follows it; after a failed     *)
(* clone no request at all has been sent (no project created, nothing      *)
(* pushed); after a failed push the second provider is not called and no   *)
(* push mirror is configured; and nothing is undone: no DELETE request is  *)
(* sent, the clone and the created project stay.                           *)
(***************************************************************************)
C21_FailedGitAbortsFork ==
    cmd = "project_fork_private" =>
        \A k \in GitCalls :
            ~calls[k].ok =>
                /\ k = Len(calls)
                /\ result = "err" /\ pc = "done"
                /\ stdout = <<>>
                /\ calls[k].name = "git clone --bare" => requests = <<>>
                /\ GhuCalls = {} /\ MirrorRequests = {}
                /\ \A j \in 1..Len(requests) : requests[j].method # "DELETE"
                /\ calls[k].name = "git push --mirror" => calls[1].ok

\* a push failed after the project had been created: the project stays
C21_Witness ==
    /\ cmd = "project_fork_private"
    /\ Len(calls) = 3 /\ ~calls[3].ok /\ calls[3].name = "git push --mirror"
    /\ CreateRequests # {}
    /\ Last(responses).status = StatusCreated
    /\ result = "err"

(***************************************************************************)
(* C22: every create request the private fork sends asks for a project of  *)
(* visibility private that is not initialized with a readme, whatever the  *)
(* source, the target name, the namespace, the description and the mirror  *)
(* flag are; its name and namespace are the target's.                      *)
(***************************************************************************)
C22_ForkIsPrivateWithoutReadme ==
    cmd = "project_fork_private" =>
        \A k \in CreateRequests :
            /\ requests[k].body # <<>>
            /\ requests[k].body[1].visibility = "private"
            /\ requests[k].body[1].initialize_with_readme = <<FALSE>>
            /\ requests[k].body[1].name = args.ref
            /\ requests[k].body[1].namespace_id = args.namespace_id

\* a fork into a group, without description, mirrored, has sent its create
\* request
C22_Witness ==
    /\ cmd = "project_fork_private"
    /\ args.namespace_id # None /\ args.description = None /\ args.mirror_to_github
    /\ CreateRequests # {}
    /\ result = "ok"

(***************************************************************************)
(* C23: the project delete command of the dispatch that applies            *)
(* encode_project_id first, given a full path with a '/', sends at most    *)
(* one DELETE request, exactly one when it succeeds, and that request is   *)
(* addressed to /projects/ followed by the given path with each '/'        *)
(* written %2F: no user name in front of it and nothing encoded twice.     *)
(***************************************************************************)
C23_CliDeleteAddressesGivenPath ==
    (cmd = "project_delete" /\ args.cli /\ HasSlash(args.ref)) =>
        /\ Len(DeleteRequests) <= 1
        /\ result = "ok" => Len(DeleteRequests) = 1
        /\ \A k \in 1..Len(DeleteRequests) :
              /\ DeleteRequests[k].path = <<"projects">>
              /\ DeleteRequests[k].tail = SlashOnly(args.ref)

\* the operations that are subcommands of the command line
Subcommands == {"download_files", "upload_package_file", "project_delete",
                "project_create", "project_fork_private"}

(***************************************************************************)
(* C24: a subcommand that ends in success has printed one result object of *)
(* the shape {status, output}; one that ends in failure has printed no     *)
(* such object.                                                            *)
(***************************************************************************)
C24_SuccessPrintsStatusOutput ==
    cmd \in Subcommands =>
        /\ result = "ok" => /\ Len(stdout) = 1
                            /\ stdout[1].kind = "PrintOutput"
        /\ result \in {"err", "panic"} =>
                \A k \in 1..Len(stdout) : stdout[k].kind # "PrintOutput"

(***************************************************************************)
(* C25: at most one request is in flight at any time: every request but    *)
(* the last sent has been answered.  In download_files every file asked    *)
(* for before the last one has been written to disk when the next is asked *)
(* for, and the listings have been answered before the first file is asked *)
(* for.                                                                    *)
(***************************************************************************)
C25_OneRequestInFlight ==
    /\ Len(requests) - Len(responses) \in {0, 1}
    /\ cmd = "download_files" =>
        /\ Len(disk) <= Len(FileRequests)
        /\ Len(FileRequests) >= 1 => Len(disk) >= Len(FileRequests) - 1
        /\ \A k \in 1..Len(requests) :
              IsFileRequest(requests[k]) =>
                  \A j \in 1..(k - 1) :
                      /\ j <= Len(responses)
                      /\ responses[j].status = StatusOk

\* the second file is asked for, the first is answered and written
C25_Witness ==
    /\ cmd = "download_files"
    /\ Len(FileRequests) = 2
    /\ Len(requests) - Len(responses) = 1
    /\ Len(disk) = 1

\* the names of the calls made, in order
CallNames == [k \in 1..Len(calls) |-> calls[k].name]

\* the calls of a private fork, in the order of the code
ForkCalls == <<"git clone --bare", "ls -lh", "git push --mirror",
               "ghu::repo_create", "ghu::repo_link_with_cred">>

\* ProjectCreate::run has handed over a project: the lookup found one, or the
\* create request was answered with one
ProjectAtHand ==
    /\ Len(responses) >= 2
    /\ \E k \in 2..Len(responses) :
          /\ responses[k].kind = "json"
          /\ requests[k].path = <<"projects">>
          /\ requests[k].method \in {"GET", "POST"}
          /\ \A j \in (k + 1)..Len(requests) : j \in MirrorRequests

(***************************************************************************)
(* C26: the private fork takes its steps in one order: the bare clone,     *)
(* then the target project (ProjectCreate::run), then git push --mirror to *)
(* the project's remote URL, then, only with mirroring enabled, the second *)
(* provider's repository and after it the push mirror.  A step is taken    *)
(* only when every step before it has succeeded, and with mirroring        *)
(* disabled the second provider is never called.                           *)
(***************************************************************************)
C26_ForkStepsInOrder ==
    cmd = "project_fork_private" =>
        /\ CallNames = SubSeq(ForkCalls, 1, Len(calls))
        /\ \A k \in 1..(Len(calls) - 1) : calls[k].ok
        /\ requests # <<>> => (calls # <<>> /\ calls[1].ok)
        /\ Len(calls) >= 2 => (ProjectAtHand /\ Len(responses) >= Len(requests) - 1)
        /\ \A k \in 1..Len(calls) :
              calls[k].name = "git push --mirror" => calls[k].arg = "ssh_url_to_repo"
        /\ CreateRequests # {} /\ Len(calls) = 1 => MirrorRequests = {}
        /\ GhuCalls # {} => args.mirror_to_github
        /\ MirrorRequests # {} => /\ Len(calls) = 5 /\ calls[5].ok
                                  /\ Cardinality(MirrorRequests) = 1
                                  /\ Len(requests) \in MirrorRequests
        /\ ~args.mirror_to_github => (GhuCalls = {} /\ MirrorRequests = {})
        /\ result = "ok" => /\ Len(calls) >= 3 /\ calls[3].ok
                            /\ args.mirror_to_github => MirrorRequests # {}

\* a mirrored fork ran to its end: five calls, the project created, the
\* push mirror configured
C26_Witness ==
    /\ cmd = "project_fork_private" /\ args.mirror_to_github
    /\ Len(calls) = 5 /\ CreateRequests # {} /\ MirrorRequests # {}
    /\ result = "ok"

\* a fork without mirroring ran to its end
C26_WitnessNoMirror ==
    /\ cmd = "project_fork_private" /\ ~args.mirror_to_github
    /\ Len(calls) = 3 /\ result = "ok"

\* the requests sent before the first file was asked for
ListingCount == Len(requests) - Len(FileRequests)

\* the k-th file asked for has been answered, and with what
FileAnswered(k) == ListingCount + k <= Len(responses)
FileResponse(k) == responses[ListingCount + k]

(***************************************************************************)
(* C27: download_file creates or changes the local file only after a       *)
(* response of status 200 has been received whole: every file on disk      *)
(* belongs to a file request answered 200, and a file request that met a   *)
(* transport error or another status has left nothing on disk.             *)
(***************************************************************************)
C27_FileTouchedOnlyAfterOk ==
    cmd = "download_files" =>
        /\ \A k \in 1..Len(disk) :
              /\ FileAnswered(k)
              /\ FileResponse(k).kind # "neterr"
              /\ FileResponse(k).status = StatusOk
              /\ disk[k].path.file = FileRequests[k].tail
        /\ \A k \in 1..Len(FileRequests) :
              (FileAnswered(k) /\ (FileResponse(k).kind = "neterr"
                                   \/ FileResponse(k).status # StatusOk)) =>
                  /\ Len(disk) < k
                  /\ result = "err"
        /\ \A k \in 1..Len(FileRequests) : ~FileAnswered(k) => Len(disk) < k

\* the second file was refused after the first was written: one file on disk
C27_Witness ==
    /\ cmd = "download_files"
    /\ Len(FileRequests) = 2 /\ FileAnswered(2)
    /\ FileResponse(2).status = StatusNotFound
    /\ Len(disk) = 1

(***************************************************************************)
(* C28: when a batch download fails at a file, the files written before it *)
(* are still on disk with their whole content, in the order asked for,     *)
(* while the command ends in failure and prints no paths.                  *)
(***************************************************************************)
C28_NoRollback ==
    (cmd = "download_files" /\ result \in {"err", "panic"}) =>
        /\ stdout = <<>>
        /\ \A k \in 1..(Len(FileRequests) - 1) :
              /\ k <= Len(disk)
              /\ disk[k].path.file = FileRequests[k].tail
              /\ disk[k].content = FileResponse(k).text
              /\ FileResponse(k).status = StatusOk

\* the batch failed at its second file, the first is on disk, whole
C28_Witness ==
    /\ cmd = "download_files" /\ result = "err"
    /\ Len(FileRequests) = 2
    /\ Len(disk) >= 1 /\ disk[1].content = "content"
    /\ Len(outputs) = 1 /\ stdout = <<>>

\* the lookups of ProjectCreate::run: a GET of /projects/{id}
IsLookup(r) == r.method = "GET" /\ r.path = <<"projects">>

\* the create requests the server answered Created
Created == {k \in CreateRequests : k <= Len(responses) /\ responses[k].status = StatusCreated}

(***************************************************************************)
(* C29: ProjectCreate::run sends a create request only after a lookup that *)
(* returned no project; when the lookup returns the project no create      *)
(* request follows and the run goes on with the project found.  Run twice  *)
(* in a row with the same arguments, at most one project is created.       *)
(***************************************************************************)
C29_CreateOnlyWhenNotFound ==
    cmd \in {"project_create", "project_fork_private"} =>
        /\ \A k \in CreateRequests :
              /\ k >= 2
              /\ IsLookup(requests[k - 1])
              /\ project_get_by_id_result(responses[k - 1]).tag # "Ok"
        /\ \A k \in 1..Len(responses) :
              (IsLookup(requests[k]) /\ project_get_by_id_result(responses[k]).tag = "Ok") =>
                  /\ k + 1 <= Len(requests) => (k + 1) \notin CreateRequests
                  /\ (k = Len(requests) /\ cmd = "project_create"
                       /\ ~args.mirror_to_github) =>
                          /\ pc \in {"done", "start"}
                          /\ pc = "done" => result = "ok"
                          /\ stdout # <<>> /\ Last(stdout).text = "project"
        /\ Cardinality(Created) <= 1

\* the first run created the project, the second found it and sent no
\* second create request
C29_Witness ==
    /\ cmd = "project_create" /\ runs = 2
    /\ Cardinality(CreateRequests) = 1 /\ Cardinality(Created) = 1
    /\ IsLookup(Last(requests))
    /\ Len(responses) = Len(requests)
    /\ result = "ok" /\ Len(stdout) = 2

\* the server's packages of the name given, oldest first
Named == SelectSeq(registry, LAMBDA p : p.name = args.package_name)

\* the selector given is one make_filter builds a filter from
SelectorBuilt == download_files_filter(args.pattern, args.filename).kind # "panic"

(***************************************************************************)
(* C30: download_files with latest = true asks for the latest package,     *)
(* a version given or not, and no request of it names another version than *)
(* the latest package's; with latest not true and a version given it asks  *)
(* for the packages of that version; with latest not true and no version   *)
(* it sends no request at all and, the selector built, returns the error   *)
(* "Please provide either package version or latest flag".                 *)
(***************************************************************************)
C30_VersionSelection ==
    (cmd = "download_files" /\ pc # "start") =>
        /\ (args.latest = Some(TRUE) /\ requests # <<>>) =>
              /\ QueryGet(requests[1].query, "sort") = "desc"
              /\ QueryGet(requests[1].query, "order_by") = "created_at"
              /\ ~QueryHas(requests[1].query, "package_version")
              /\ \A k \in 1..Len(requests) :
                    /\ QueryHas(requests[k].query, "package_version") =>
                          /\ Named # <<>>
                          /\ QueryGet(requests[k].query, "package_version") =
                                Last(Named).version
                    /\ IsFileRequest(requests[k]) =>
                          requests[k].path[6] = Last(Named).version
        /\ (args.latest # Some(TRUE) /\ args.version # None /\ requests # <<>>) =>
              /\ QueryGet(requests[1].query, "package_version") = args.version[1]
              /\ ~QueryHas(requests[1].query, "order_by")
              /\ \A k \in 1..Len(requests) :
                    IsFileRequest(requests[k]) => requests[k].path[6] = args.version[1]
        /\ (args.latest # Some(TRUE) /\ args.version = None) =>
              /\ requests = <<>> /\ disk = <<>> /\ stdout = <<>>
              /\ result \in {"err", "panic"}
              /\ SelectorBuilt =>
                    /\ result = "err"
                    /\ err.kind = "Please provide either package version or latest flag"
        /\ (SelectorBuilt /\ (args.latest = Some(TRUE) \/ args.version # None)) =>
              requests # <<>>

\* latest and the older version 1.0 were both given: a file of the latest
\* package, 2.0, was written
C30_Witness ==
    /\ cmd = "download_files"
    /\ args.latest = Some(TRUE) /\ args.version = Some("1.0")
    /\ Named # <<>> /\ Last(Named).version = "2.0"
    /\ Len(disk) >= 1 /\ result = "ok"

\* neither was given, with a selector: the error, and no request
C30_WitnessNeither ==
    /\ cmd = "download_files"
    /\ args.latest = Some(FALSE) /\ args.version = None /\ SelectorBuilt
    /\ result = "err" /\ requests = <<>>
====
